---- MODULE Spec2Model ----
(***************************************************************************)
(* N-by-N MIMO adaptive equalizer of "Adaptive equalization.py":           *)
(* the driver mimoAdaptEqualizer, the engine coreAdaptEq and the four tap  *)
(* update rules nlmsUp, cmaUp, ddlmsUp and rdeUp.                          *)
(*                                                                         *)
(* Numbers are exact complex rationals [re, im, d] standing for            *)
(* (re + j*im)/d with d > 0.  d = 0 is "not a number" (the result of 0/0), *)
(* d = -1 marks a value outside the range the model explores and d = -2 an *)
(* element of an array that np.empty allocated and nothing has written.    *)
(* Arrays are sequences indexed from 1; the code's index k is k+1 here.    *)
(***************************************************************************)
EXTENDS Integers, Sequences, FiniteSets, TLC

----------------------------------------------------------------------------
(* Bounds of the exploration *)

MaxLen == 2
MaxIter == 2
MaxMag == 30000

----------------------------------------------------------------------------
(* Complex arithmetic (dtype 'complex') *)

Abs(n) == IF n < 0 THEN -n ELSE n

RECURSIVE GCD(_, _)
GCD(a, b) == IF b = 0 THEN a ELSE GCD(b, a % b)

NaN == [re |-> 0, im |-> 0, d |-> 0]
Ovf == [re |-> 0, im |-> 0, d |-> -1]
Uninit == [re |-> 0, im |-> 0, d |-> -2]

IsFin(c) == c.d > 0
IsNaN(c) == c.d = 0

\* the value (re + j*im)/d in lowest terms
Mk(re, im, d) ==
    IF Abs(re) > MaxMag \/ Abs(im) > MaxMag \/ d > MaxMag THEN Ovf
    ELSE LET g == GCD(GCD(Abs(re), Abs(im)), d)
         IN [re |-> re \div g, im |-> im \div g, d |-> d \div g]

Cx(re, im) == [re |-> re, im |-> im, d |-> 1]
Zero == Cx(0, 0)
One == Cx(1, 0)
Jay == Cx(0, 1)

\* a binary operation on two values: out-of-range and nan operands propagate
Lift(a, b, r) ==
    IF a.d < 0 \/ b.d < 0 THEN Ovf
    ELSE IF a.d = 0 \/ b.d = 0 THEN NaN
    ELSE r

CAdd(a, b) == Lift(a, b, Mk(a.re * b.d + b.re * a.d, a.im * b.d + b.im * a.d, a.d * b.d))
CSub(a, b) == Lift(a, b, Mk(a.re * b.d - b.re * a.d, a.im * b.d - b.im * a.d, a.d * b.d))
CMul(a, b) == Lift(a, b, Mk(a.re * b.re - a.im * b.im, a.re * b.im + a.im * b.re, a.d * b.d))
CConj(a) == IF a.d > 0 THEN [re |-> a.re, im |-> -a.im, d |-> a.d] ELSE a
\* np.abs(a)**2, a real number
CAbs2(a) == IF a.d > 0 THEN Mk(a.re * a.re + a.im * a.im, 0, a.d * a.d) ELSE a
\* a / r for a real r: x/0 is nan for x = 0 (numpy semantics of array division)
CDivReal(a, r) ==
    Lift(a, r, IF r.re = 0 THEN NaN
               ELSE IF r.re > 0 THEN Mk(a.re * r.d, a.im * r.d, a.d * r.re)
               ELSE Mk(-a.re * r.d, -a.im * r.d, -a.d * r.re))
\* a < b for real a, b
RLess(a, b) == a.re * b.d < b.re * a.d

----------------------------------------------------------------------------
(* Small dense linear algebra, as numpy computes it *)

RECURSIVE Dot(_, _, _)
\* sum over k of a[k]*b[k], k = 1..n
Dot(a, b, n) == IF n = 0 THEN Zero ELSE CAdd(Dot(a, b, n - 1), CMul(a[n], b[n]))

\* A @ B for A of shape (R, K) and B of shape (K, T)
MatMul(A, B, R, K, T) ==
    [m \in 1..R |-> [t \in 1..T |-> Dot(A[m], [k \in 1..K |-> B[k][t]], K)]]

\* np.diag(v): v on the diagonal, exact zeros elsewhere
Diag(v, n) == [m \in 1..n |-> [k \in 1..n |-> IF m = k THEN v[m] ELSE Zero]]

\* np.zeros((R, T))
Zeros(R, T) == [r \in 1..R |-> [t \in 1..T |-> Zero]]

\* a.T for a of shape (R, T)
Transpose(a, R, T) == [t \in 1..T |-> [r \in 1..R |-> a[r][t]]]

\* inAdapt.repeat(nModes).reshape(len(x), -1).T : nModes equal rows
RepeatRows(v, nModes) == [m \in 1..nModes |-> v]

RECURSIVE SumSeq(_, _)
SumSeq(v, n) == IF n = 0 THEN Zero ELSE CAdd(SumSeq(v, n - 1), v[n])

\* np.mean(v)
Mean(v) == CDivReal(SumSeq(v, Len(v)), Cx(Len(v), 0))

\* some value of the matrix is outside the explored range
HasOvf(A) == \E r \in DOMAIN A : \E t \in DOMAIN A[r] : A[r][t].d = -1
HasNaN(A) == \E r \in DOMAIN A : \E t \in DOMAIN A[r] : A[r][t].d = 0

----------------------------------------------------------------------------
(* The constellation handed to coreAdaptEq *)

\* mod.constellation/np.sqrt(mod.Es): a two-ring alphabet with rational radii
constSymb == << Cx(1, 0), Cx(-1, 0), Cx(0, 2), Cx(0, -2) >>

\* np.abs(c) of a constellation point (its modulus is rational)
AbsPoint(c) == LET n == c.re * c.re + c.im * c.im
               IN Cx(CHOOSE r \in 0..n : r * r = n, 0)

\* Rcma = np.mean(np.abs(constSymb)**4)/np.mean(np.abs(constSymb)**2)
Rcma == LET a2 == [k \in DOMAIN constSymb |-> CAbs2(constSymb[k])]
            a4 == [k \in DOMAIN constSymb |-> CMul(a2[k], a2[k])]
        IN  CDivReal(Mean(a4), Mean(a2))

RECURSIVE SortedSeq(_)
\* the reals of a finite set in ascending order
SortedSeq(S) ==
    IF S = {} THEN << >>
    ELSE LET lo == CHOOSE a \in S : \A b \in S : ~RLess(b, a)
         IN << lo >> \o SortedSeq(S \ {lo})

\* Rrde = np.unique(np.abs(constSymb))
Rrde == SortedSeq({AbsPoint(constSymb[k]) : k \in DOMAIN constSymb})

----------------------------------------------------------------------------
(* The four tap update rules.  x is the window (nTaps rows of nModes        *)
(* samples), outEq the current output vector, H the Tap Matrix; each       *)
(* returns the updated Tap Matrix and the squared error per mode.          *)

\* x[:, N] for the code's N = n - 1
Column(x, n) == [t \in DOMAIN x |-> x[t][n]]

\* indMode + N*nModes: the row of output mode m and input mode n (from 1)
TapRow(m, n, nModes) == m + (n - 1) * nModes

RECURSIVE UpdateTaps(_, _, _, _, _, _)
\* the loop "for N in range(0, nModes)" of every rule, N = 0..n-1 done:
\* H[indUpdTaps,:] = H[indUpdTaps,:] + mu*D@np.conj(inAdaptPar), where
\* inAdapt[n] is the (possibly normalised) window of input mode n
UpdateTaps(H, D, inAdapt, mu, nModes, n) ==
    IF n = 0 THEN H
    ELSE LET nTaps == Len(inAdapt[n])
             Hn == UpdateTaps(H, D, inAdapt, mu, nModes, n - 1)
             muD == [m \in 1..nModes |-> [k \in 1..nModes |-> CMul(mu, D[m][k])]]
             inAdaptPar == RepeatRows([t \in 1..nTaps |-> CConj(inAdapt[n][t])], nModes)
             upd == MatMul(muD, inAdaptPar, nModes, nModes, nTaps)
         IN  [r \in DOMAIN Hn |->
                IF \E m \in 1..nModes : r = TapRow(m, n, nModes)
                THEN LET m == r - (n - 1) * nModes
                     IN [t \in 1..nTaps |-> CAdd(Hn[r][t], upd[m][t])]
                ELSE Hn[r]]

\* np.linalg.norm(x[:, N])**2
Energy(x, n) == SumSeq([t \in DOMAIN x |-> CAbs2(x[t][n])], Len(x))

\* err = dx - outEq.T broadcasts a reference vector of one element
Broadcast(v, m) == IF Len(v) = 1 THEN v[1] ELSE v[m]

nlmsUp(x, dx, outEq, mu, H, nModes) ==
    LET err == [m \in 1..nModes |-> CSub(Broadcast(dx, m), outEq[m])]
        errDiag == Diag(err, nModes)
        inAdapt == [n \in 1..nModes |->
                      [t \in DOMAIN x |-> CDivReal(x[t][n], Energy(x, n))]]
    IN  [H |-> UpdateTaps(H, errDiag, inAdapt, mu, nModes, nModes),
         errSq |-> [m \in 1..nModes |-> CAbs2(err[m])]]

\* np.argmin(v) for real v: the first index of the least value
ArgMin(v) ==
    CHOOSE k \in DOMAIN v :
        /\ \A j \in DOMAIN v : ~RLess(v[j], v[k])
        /\ \A j \in 1..(k - 1) : RLess(v[k], v[j])

\* constSymb[np.argmin(np.abs(y - constSymb))]
Decide(y, cs) ==
    LET dist == [k \in DOMAIN cs |-> CAbs2(CSub(y, cs[k]))]
    IN  IF \E k \in DOMAIN dist : dist[k].d = -1 THEN Ovf
        ELSE IF \E k \in DOMAIN dist : dist[k].d = 0
             THEN cs[CHOOSE k \in DOMAIN dist :
                               dist[k].d = 0 /\ \A j \in 1..(k - 1) : dist[j].d # 0]
        ELSE cs[ArgMin(dist)]

ddlmsUp(x, cs, outEq, mu, H, nModes) ==
    LET decided == [k \in 1..nModes |-> Decide(outEq[k], cs)]
        err == [m \in 1..nModes |-> CSub(decided[m], outEq[m])]
        errDiag == Diag(err, nModes)
        inAdapt == [n \in 1..nModes |-> Column(x, n)]
    IN  [H |-> UpdateTaps(H, errDiag, inAdapt, mu, nModes, nModes),
         errSq |-> [m \in 1..nModes |-> CAbs2(err[m])]]

\* the CMA update without the output factor
cmaUpErrorOnly(x, R, outEq, mu, H, nModes) ==
    LET err == [m \in 1..nModes |-> CSub(R[m], CAbs2(outEq[m]))]
        inAdapt == [n \in 1..nModes |-> Column(x, n)]
    IN  [H |-> UpdateTaps(H, Diag(err, nModes), inAdapt, mu, nModes, nModes),
         errSq |-> [m \in 1..nModes |-> CAbs2(err[m])]]

cmaUp(x, R, outEq, mu, H, nModes) ==
    LET err == [m \in 1..nModes |-> CSub(R[m], CAbs2(outEq[m]))]
        prodErrOut == MatMul(Diag(err, nModes), Diag(outEq, nModes),
                             nModes, nModes, nModes)
        inAdapt == [n \in 1..nModes |-> Column(x, n)]
    IN  [H |-> UpdateTaps(H, prodErrOut, inAdapt, mu, nModes, nModes),
         errSq |-> [m \in 1..nModes |-> CAbs2(err[m])]]

\* | R[a] - |y| | < | R[b] - |y| |, decided on squares (y2 = |y|**2)
Nearer(R, a, b, y2) ==
    LET s == CAdd(R[a], R[b])
        s2 == CMul(s, s)
        y4 == CMul(Cx(4, 0), y2)
    IN  IF RLess(R[a], R[b]) THEN RLess(y4, s2)
        ELSE IF RLess(R[b], R[a]) THEN RLess(s2, y4)
        ELSE FALSE

\* R[np.argmin(np.abs(R - np.abs(y)))]
DecideRadius(R, y) ==
    LET y2 == CAbs2(y)
    IN  IF y2.d = -1 \/ CMul(Cx(4, 0), y2).d = -1 THEN Ovf
        ELSE IF y2.d = 0 THEN R[1]
        ELSE R[CHOOSE k \in DOMAIN R :
                  /\ \A j \in DOMAIN R : ~Nearer(R, j, k, y2)
                  /\ \A j \in 1..(k - 1) : Nearer(R, k, j, y2)]

rdeUp(x, R, outEq, mu, H, nModes) ==
    LET decidedR == [k \in 1..nModes |-> DecideRadius(R, outEq[k])]
        err == [m \in 1..nModes |->
                  CSub(CMul(decidedR[m], decidedR[m]), CAbs2(outEq[m]))]
        prodErrOut == MatMul(Diag(err, nModes), Diag(outEq, nModes),
                             nModes, nModes, nModes)
        inAdapt == [n \in 1..nModes |-> Column(x, n)]
    IN  [H |-> UpdateTaps(H, prodErrOut, inAdapt, mu, nModes, nModes),
         errSq |-> [m \in 1..nModes |-> CAbs2(err[m])]]

----------------------------------------------------------------------------
(* The call mimoAdaptEqualizer(x, dx, paramEq) *)

VARIABLES
    xArg, dxArg,    \* the caller's Sample Stream and Reference Stream
    paramEq,        \* the caller's options
    x, dx,          \* the driver's streams after orientation and padding
    nModes, L, H,   \* mode count, output length (a list), Tap Matrix
    yEq, errSq, Hiter,  \* output stream, Error Trace, Tap History
    indIter, ind,   \* pass and output index
    outEq,          \* output vector of the current step
    pc, exc,        \* position in the code, exception raised
    win, dRef,      \* window and reference vector the current step read
    prevH,          \* Tap Matrix before the current step's update
    passes,         \* per pass: its stream and its Tap Matrix at start and end
    ub,             \* arrays indexed outside their bounds so far
    HArg,           \* the array the caller put in paramEq.H, as the caller sees it
    steps,          \* this pass so far: its output writes and rule applications
    atCall          \* what the caller's streams held when the call was made

vars == << xArg, dxArg, paramEq, x, dx, nModes, L, H, yEq, errSq, Hiter,
           indIter, ind, outEq, pc, exc, win, dRef, prevH, passes, ub,
           HArg, steps, atCall >>

\* an array argument: ndim 1 is a vector, rows holds its elements one per row
Vector(v) == [ndim |-> 1, rows |-> [k \in DOMAIN v |-> << v[k] >>]]
Matrix(a) == [ndim |-> 2, rows |-> a]
\* dx=[] : no Reference Stream
NoArray == [ndim |-> 1, rows |-> << >>]

\* lines 529-539: signal sequences disposed in columns
Orient(a) ==
    IF a.ndim = 1 THEN a.rows
    ELSE LET R == Len(a.rows)
             C == Len(a.rows[1])
         IN  IF C > R THEN Transpose(a.rows, R, C) ELSE a.rows

\* every local array standing on the caller's storage, a view wherever the
\* code takes one
StorageNoCopy(name) ==
    CASE name \in {"x", "yEq"} -> "xArg"
      [] name = "dx" -> "dxArg"
      [] name = "H" -> "HArg"
      [] OTHER -> name

\* the storage a local array stands on.  x.T and x.reshape are views of the
\* caller's array (lines 529-539); x.copy() (line 526), np.concatenate
\* (line 545), np.zeros (line 555) and x[0:L].copy() (line 581) are new
\* arrays; getattr (line 518) hands over the caller's own array, and numba
\* works on the storage of the arrays it is passed.
Storage(name) ==
    CASE name = "x" -> IF pc \in {"orient", "pad"} THEN "xArg" ELSE "x"
      [] name = "dx" -> IF Len(dxArg.rows) = 0 THEN "dx" ELSE "dxArg"
      [] name = "H" -> IF paramEq.H # << >> THEN "HArg" ELSE "H"
      [] OTHER -> name

\* the caller's object obj after a write to the local array name: the new
\* contents show in obj when name stands on obj's storage
Through(obj, name, shown, old) == IF Storage(name) = obj THEN shown ELSE old

\* the array a with the leading rows of its column layout replaced by y
Overlay(a, y) ==
    LET o == Orient(a)
        w == [k \in 1..Len(o) |-> IF k <= Len(y) THEN y[k] ELSE o[k]]
    IN  IF a.ndim = 1 \/ Len(a.rows[1]) <= Len(a.rows)
        THEN [a EXCEPT !.rows = w]
        ELSE [a EXCEPT !.rows = Transpose(w, Len(w), Len(w[1]))]

\* int(np.fix(a/s + 1))
FixDivPlusOne(a, s) ==
    LET q == a + s
    IN  IF (q >= 0) = (s > 0) THEN Abs(q) \div Abs(s) ELSE -(Abs(q) \div Abs(s))

\* central spike put on the rows initH + initH instead of initH + initH*nModes
SpikeTapsWrongRow(modes, nTaps) ==
    [r \in 1..(modes * modes) |->
        [t \in 1..nTaps |->
            IF /\ \E initH \in 0..(modes - 1) : r = initH + initH + 1
               /\ t = (nTaps \div 2) + 1
            THEN One ELSE Zero]]

\* lines 555-558: central spike initialization
SpikeTaps(modes, nTaps) ==
    [r \in 1..(modes * modes) |->
        [t \in 1..nTaps |->
            IF /\ \E initH \in 0..(modes - 1) : r = initH + initH * modes + 1
               /\ t = (nTaps \div 2) + 1
            THEN One ELSE Zero]]

----------------------------------------------------------------------------
(* The calls explored *)

\* sample values: the stream with seed s holds XVal cyclically
XVal == << One, Jay, Zero >>
SampleAt(s, r, c) == XVal[((s + r + c) % Len(XVal)) + 1]
Seeds == {1, 2}
SampleMatrix(R, C, s) == Matrix([r \in 1..R |-> [c \in 1..C |-> SampleAt(s, r, c)]])
\* one mode or the two polarisation modes
ModeCounts == {1, 2}
\* tall matrices (samples x modes), wide ones (to be transposed) and vectors
SampleStreams ==
    {SampleMatrix(R, C, s) : R \in 1..MaxLen, C \in ModeCounts, s \in Seeds}
    \cup {Vector([r \in 1..R |-> SampleAt(1, r, 1)]) : R \in 1..MaxLen}

\* reference vectors are constellation symbols, one per output index
RefLen == MaxLen + 1
RefStream(C) ==
    Matrix([r \in 1..RefLen |->
              [c \in 1..C |-> constSymb[((r + c) % Len(constSymb)) + 1]]])

\* a Tap Matrix of an earlier run, for a warm start
WarmTaps(modes, nTaps) ==
    [r \in 1..(modes * modes) |->
        [t \in 1..nTaps |->
            IF t = 1 THEN (IF r % 2 = 1 THEN Jay ELSE One) ELSE Zero]]

Algorithms == {"nlms", "cma", "ddlms", "rde"}

\* the options of a call on the Sample Stream a (getattr, lines 514-523)
Options(a) ==
    LET modes == Len(Orient(a)[1])
    IN  UNION {
          [numIter : 1..MaxIter, nTaps : {nTaps}, mu : {Zero, One},
           SpS : 0..2, storeCoeff : BOOLEAN, alg : Algorithms,
           L : {<< >>, << 1 >>, << RefLen >>},
           H : {<< >>} \cup (IF nTaps >= 1 THEN {WarmTaps(modes, nTaps)} ELSE {})]
          : nTaps \in (-1)..3 }

\* the Reference Streams of a call on a: one of a's mode count, none, one of
\* another mode count
References(a) ==
    LET modes == Len(Orient(a)[1])
    IN  {RefStream(modes), NoArray, RefStream(IF modes = 1 THEN 2 ELSE 1)}

\* how far a call is from the plain one (one pass from the identity start
\* with mu = 1, the derived length, a matching reference and the samples of
\* seed 1)
Departures(a, d, p) ==
    LET B(b) == IF b THEN 1 ELSE 0
    IN  B(p.mu # One) + B(p.L # << >>) + B(p.H # << >> \/ p.numIter # 1)
        + B(d # RefStream(Len(Orient(a)[1])))
        + B(a.ndim = 2 /\ a # SampleMatrix(Len(a.rows), Len(a.rows[1]), 1))

Init ==
    \E a \in SampleStreams :
      \E d \in References(a) :
        \E p \in Options(a) :
          /\ Departures(a, d, p) <= 1
          /\ xArg = a
          /\ dxArg = d
          /\ paramEq = p
          /\ x = << >> /\ dx = << >> /\ nModes = 0
          /\ L = p.L /\ H = p.H
          /\ yEq = << >> /\ errSq = << >> /\ Hiter = << >>
          /\ indIter = 0 /\ ind = 0 /\ outEq = << >>
          /\ pc = "orient" /\ exc = "none"
          /\ win = << >> /\ dRef = << >> /\ prevH = << >>
          /\ passes = << >>
          /\ ub = {}
          /\ HArg = p.H
          /\ steps = << >>
          /\ atCall = [x |-> a, dx |-> d]

----------------------------------------------------------------------------
(* mimoAdaptEqualizer, lines 507-566 *)

Raise(e) ==
    /\ pc' = "raised"
    /\ exc' = e

\* lines 525-541: default reference, orientation, mode count
OrientStreams ==
    /\ pc = "orient"
    /\ x' = Orient(xArg)
    /\ dx' = IF Len(dxArg.rows) = 0 THEN Orient(xArg) ELSE Orient(dxArg)
    /\ nModes' = Len(Orient(xArg)[1])
    /\ pc' = "pad"
    /\ UNCHANGED << xArg, dxArg, paramEq, L, H, yEq, errSq, Hiter, indIter, ind,
                    outEq, exc, win, dRef, prevH, passes, ub >>
    /\ UNCHANGED << HArg, steps, atCall >>

\* lines 543-545: zero padding; np.zeros rejects a negative dimension
PadStream ==
    /\ pc = "pad"
    /\ LET Lpad == paramEq.nTaps \div 2
       IN  IF Lpad < 0
           THEN Raise("ValueError") /\ UNCHANGED x
           ELSE /\ x' = Zeros(Lpad, nModes) \o x \o Zeros(Lpad, nModes)
                /\ pc' = "length"
                /\ UNCHANGED exc
    /\ UNCHANGED << xArg, dxArg, paramEq, dx, nModes, L, H, yEq, errSq, Hiter,
                    indIter, ind, outEq, win, dRef, prevH, passes, ub >>
    /\ UNCHANGED << HArg, steps, atCall >>

\* lines 551-552: default output length
DeriveLength ==
    /\ pc = "length"
    /\ IF L # << >>
       THEN pc' = "taps" /\ UNCHANGED << L, exc >>
       ELSE IF paramEq.SpS = 0
            THEN Raise("ZeroDivisionError") /\ UNCHANGED L
            ELSE /\ L' = << FixDivPlusOne(Len(x) - paramEq.nTaps, paramEq.SpS) >>
                 /\ pc' = "taps"
                 /\ UNCHANGED exc
    /\ UNCHANGED << xArg, dxArg, paramEq, x, dx, nModes, H, yEq, errSq, Hiter,
                    indIter, ind, outEq, win, dRef, prevH, passes, ub >>
    /\ UNCHANGED << HArg, steps, atCall >>

\* lines 554-558: identity start unless taps were handed in
InitTaps ==
    /\ pc = "taps"
    /\ IF Len(H) # 0
       THEN pc' = "loop" /\ UNCHANGED << H, exc >>
       ELSE IF paramEq.nTaps = 0
            THEN Raise("IndexError") /\ H' = Zeros(nModes * nModes, 0)
            ELSE /\ H' = SpikeTaps(nModes, paramEq.nTaps)
                 /\ pc' = "loop"
                 /\ UNCHANGED exc
    /\ UNCHANGED << xArg, dxArg, paramEq, x, dx, nModes, L, yEq, errSq, Hiter,
                    indIter, ind, outEq, win, dRef, prevH, passes, ub >>
    /\ UNCHANGED << HArg, steps, atCall >>

----------------------------------------------------------------------------
(* coreAdaptEq, lines 569-622.  The function is compiled without bounds    *)
(* checks: an index outside an array either raises IndexError (a checked   *)
(* build) or goes through, reading some value or writing nowhere in the    *)
(* array.                                                                  *)

\* values a read outside an array may return
Garbage == {Zero, One}

\* x[0:L] has at most len(x) rows
SliceLen(n, len) == IF len < n THEN len ELSE n

\* a pass that starts over from the central spike
TapsForPassReset == SpikeTaps(nModes, paramEq.nTaps)

\* line 563: a pass works on the Tap Matrix the driver holds
TapsForPass == H

\* lines 561-563 and 576-592: enter a pass and allocate its arrays
StartPass ==
    /\ pc = "loop"
    /\ indIter < paramEq.numIter
    /\ errSq' = [m \in 1..nModes |-> [k \in 1..L[1] |-> Uninit]]
    /\ yEq' = [k \in 1..SliceLen(Len(x), L[1]) |-> [m \in 1..nModes |-> NaN]]
    /\ outEq' = [m \in 1..nModes |-> Zero]
    /\ Hiter' = [r \in 1..(nModes * nModes) |->
                   [t \in 1..paramEq.nTaps |->
                      [k \in 1..(IF paramEq.storeCoeff THEN L[1] ELSE 1) |-> Zero]]]
    /\ ind' = 0
    /\ H' = TapsForPass
    /\ passes' = Append(passes, [stream |-> x, taps0 |-> H', taps1 |-> << >>])
    /\ pc' = IF L[1] > 0 THEN "filter" ELSE "return"
    /\ xArg' = Through("xArg", "yEq", Overlay(xArg, yEq'), xArg)
    /\ steps' = << >>
    /\ UNCHANGED << dxArg, paramEq, x, dx, nModes, L, indIter, exc,
                    win, dRef, prevH, ub, HArg, atCall >>

\* indIn = indTaps + ind*SpS, from 0
IndIn(t) == (t - 1) + ind * paramEq.SpS

\* x[indIn, :] with g read wherever indIn leaves the array
Window(g) ==
    [t \in 1..paramEq.nTaps |->
        IF IndIn(t) \in 0..(Len(x) - 1) THEN x[IndIn(t) + 1]
        ELSE [n \in 1..nModes |-> g]]

RECURSIVE FilterOutSwapped(_, _, _)
\* the filter reading row n + m*nModes for the pair (m, n)
FilterOutSwapped(h, w, n) ==
    IF n = 0 THEN [m \in 1..nModes |-> Zero]
    ELSE LET prev == FilterOutSwapped(h, w, n - 1)
             inEq == Column(w, n)
         IN  [m \in 1..nModes |->
                CAdd(prev[m], Dot(h[TapRow(n, m, nModes)], inEq, Len(inEq)))]

RECURSIVE FilterOut(_, _, _)
\* lines 600-602 for N = 0..n-1: outEq += H[indMode+N*nModes,:]@inEq
FilterOut(h, w, n) ==
    IF n = 0 THEN [m \in 1..nModes |-> Zero]
    ELSE LET prev == FilterOut(h, w, n - 1)
             inEq == Column(w, n)
         IN  [m \in 1..nModes |->
                CAdd(prev[m], Dot(h[TapRow(m, n, nModes)], inEq, Len(inEq)))]

\* the output write of index ind: the Tap Matrix and window it was computed
\* from and the vector written
OutputWrite(w, out) ==
    [op |-> "out", ind |-> ind, taps |-> H, win |-> w, outEq |-> out,
     ref |-> << >>, after |-> << >>, errSq |-> << >>]

\* lines 594-604: the equalizer's output at index ind
FilterStep ==
    /\ pc = "filter"
    /\ LET readOk == \A t \in 1..paramEq.nTaps : IndIn(t) \in 0..(Len(x) - 1)
           writeOk == ind < Len(yEq)
       IN  \/ /\ readOk /\ writeOk
              /\ win' = Window(Zero)
              /\ outEq' = FilterOut(H, win', nModes)
              /\ yEq' = [yEq EXCEPT ![ind + 1] = outEq']
              /\ steps' = Append(steps, OutputWrite(win', outEq'))
              /\ pc' = "update"
              /\ UNCHANGED << exc, ub >>
           \/ /\ ~(readOk /\ writeOk)
              /\ Raise("IndexError")
              /\ ub' = ub \cup (IF readOk THEN {"yEq"} ELSE {"x"})
              /\ UNCHANGED << win, outEq, yEq, steps >>
           \/ /\ ~(readOk /\ writeOk)
              /\ \E g \in Garbage :
                   /\ win' = Window(g)
                   /\ outEq' = FilterOut(H, win', nModes)
              /\ yEq' = IF writeOk THEN [yEq EXCEPT ![ind + 1] = outEq'] ELSE yEq
              /\ steps' = Append(steps, OutputWrite(win', outEq'))
              /\ ub' = ub \cup (IF readOk THEN {} ELSE {"x"})
                          \cup (IF writeOk THEN {} ELSE {"yEq"})
              /\ pc' = "update"
              /\ UNCHANGED exc
    /\ xArg' = Through("xArg", "yEq", Overlay(xArg, yEq'), xArg)
    /\ UNCHANGED << dxArg, paramEq, x, dx, nModes, L, H, errSq, Hiter,
                    indIter, ind, dRef, prevH, passes, HArg, atCall >>

\* a dispatch that trains ddlms on the reference vector of the current index
\* wherever the Reference Stream has one
RuleTrained(d) ==
    IF paramEq.alg = "ddlms" /\ ind < Len(dx) /\ Len(dx[ind + 1]) \in {1, nModes}
    THEN nlmsUp(win, dx[ind + 1], outEq, paramEq.mu, H, nModes)
    ELSE CASE paramEq.alg = "nlms" -> nlmsUp(win, d, outEq, paramEq.mu, H, nModes)
           [] paramEq.alg = "cma" ->
                  cmaUp(win, [m \in 1..nModes |-> Rcma], outEq, paramEq.mu, H, nModes)
           [] paramEq.alg = "ddlms" ->
                  ddlmsUp(win, constSymb, outEq, paramEq.mu, H, nModes)
           [] paramEq.alg = "rde" -> rdeUp(win, Rrde, outEq, paramEq.mu, H, nModes)

\* the rule selected by alg applied to the current step (lines 608-615)
Rule(d) ==
    CASE paramEq.alg = "nlms" -> nlmsUp(win, d, outEq, paramEq.mu, H, nModes)
      [] paramEq.alg = "cma" ->
             cmaUp(win, [m \in 1..nModes |-> Rcma], outEq, paramEq.mu, H, nModes)
      [] paramEq.alg = "ddlms" -> ddlmsUp(win, constSymb, outEq, paramEq.mu, H, nModes)
      [] paramEq.alg = "rde" -> rdeUp(win, Rrde, outEq, paramEq.mu, H, nModes)

\* H and errSq[:, ind] take the rule's results.  A step whose values leave
\* the range of Mk is not taken: such a run is explored no further.
Adapt(d) ==
    LET res == Rule(d)
    IN  /\ ~HasOvf(res.H)
        /\ \A m \in 1..nModes : res.errSq[m].d # -1
        /\ H' = res.H
        /\ errSq' = [m \in 1..nModes |-> [errSq[m] EXCEPT ![ind + 1] = res.errSq[m]]]
        /\ HArg' = Through("HArg", "H", H', HArg)
        /\ steps' = Append(steps, [op |-> "upd", ind |-> ind, taps |-> H,
                                    win |-> win, outEq |-> outEq, ref |-> d,
                                    after |-> res.H, errSq |-> res.errSq])
        /\ prevH' = H
        /\ dRef' = d
        /\ pc' = "store"

\* dx[ind, :], or what a read past the end of dx returns
RefRead ==
    IF ind < Len(dx) THEN {dx[ind + 1]}
    ELSE {[m \in 1..Len(dx[1]) |-> g] : g \in Garbage}

\* lines 608-615: tap update and squared error of index ind
UpdateStep ==
    /\ pc = "update"
    /\ IF paramEq.alg # "nlms"
       THEN Adapt(<< >>) /\ UNCHANGED << exc, ub >>
       ELSE \/ /\ \E d \in RefRead :
                    IF Len(d) = nModes \/ Len(d) = 1
                    THEN Adapt(d) /\ UNCHANGED exc
                    ELSE /\ Raise("ValueError")
                         /\ UNCHANGED << H, errSq, prevH, dRef, HArg, steps >>
               /\ ub' = ub \cup (IF ind < Len(dx) THEN {} ELSE {"dx"})
            \/ /\ ind >= Len(dx)
               /\ Raise("IndexError")
               /\ ub' = ub \cup {"dx"}
               /\ UNCHANGED << H, errSq, prevH, dRef, HArg, steps >>
    /\ UNCHANGED << xArg, dxArg, paramEq, x, dx, nModes, L, yEq, Hiter,
                    indIter, ind, outEq, win, passes, atCall >>

\* Hiter[:, :, k] = H for the code's k: element (r, t) goes to the flat
\* position (r*nTaps + t)*depth + k of the C-ordered array, which for
\* k >= depth is the place of a later element or none at all
HistoryWrite(k) ==
    LET nTaps == paramEq.nTaps
        depth == Len(Hiter[1][1])
        size == nModes * nModes * nTaps * depth
        Flat(r, t, j) == ((r - 1) * nTaps + (t - 1)) * depth + j
    IN  [r \in 1..(nModes * nModes) |->
          [t \in 1..nTaps |->
            [j \in 1..depth |->
               LET f == Flat(r, t, j - 1)
                   src == f - k
               IN  IF src >= 0 /\ (src % depth) = 0 /\ (src \div depth) < nModes * nModes * nTaps
                   THEN H[((src \div depth) \div nTaps) + 1][((src \div depth) % nTaps) + 1]
                   ELSE Hiter[r][t][j]]]]

\* a loop that moves on by two indices
NextIndSkipping == ind + 2

\* line 594: for ind in range(0, L)
NextInd == ind + 1

\* lines 617-620: snapshot of the Tap Matrix; next index
StoreStep ==
    /\ pc = "store"
    /\ LET k == IF paramEq.storeCoeff THEN ind ELSE 1
           inside == k < Len(Hiter[1][1])
       IN  \/ /\ inside
              /\ Hiter' = HistoryWrite(k)
              /\ pc' = IF NextInd < L[1] THEN "filter" ELSE "return"
              /\ ind' = NextInd
              /\ UNCHANGED << exc, ub >>
           \/ /\ ~inside
              /\ Raise("IndexError")
              /\ ub' = ub \cup {"Hiter"}
              /\ UNCHANGED << Hiter, ind >>
           \/ /\ ~inside
              /\ Hiter' = HistoryWrite(k)
              /\ ub' = ub \cup {"Hiter"}
              /\ pc' = IF NextInd < L[1] THEN "filter" ELSE "return"
              /\ ind' = NextInd
              /\ UNCHANGED exc
    /\ UNCHANGED << xArg, dxArg, paramEq, x, dx, nModes, L, H, yEq, errSq,
                    indIter, outEq, win, dRef, prevH, passes >>
    /\ UNCHANGED << HArg, steps, atCall >>

\* line 622 and lines 563-564: the pass hands its arrays to the driver
EndPass ==
    /\ pc = "return"
    /\ passes' = [passes EXCEPT ![Len(passes)].taps1 = H]
    /\ indIter' = indIter + 1
    /\ pc' = "loop"
    /\ UNCHANGED << xArg, dxArg, paramEq, x, dx, nModes, L, H, yEq, errSq, Hiter,
                    ind, outEq, exc, win, dRef, prevH, ub >>
    /\ UNCHANGED << HArg, steps, atCall >>

\* line 566: the driver returns yEq, H, errSq, Hiter
Return ==
    /\ pc = "loop"
    /\ indIter = paramEq.numIter
    /\ pc' = "done"
    /\ UNCHANGED << xArg, dxArg, paramEq, x, dx, nModes, L, H, yEq, errSq, Hiter,
                    indIter, ind, outEq, exc, win, dRef, prevH, passes, ub >>
    /\ UNCHANGED << HArg, steps, atCall >>

Next ==
    \/ OrientStreams
    \/ PadStream
    \/ DeriveLength
    \/ InitTaps
    \/ StartPass
    \/ FilterStep
    \/ UpdateStep
    \/ StoreStep
    \/ EndPass
    \/ Return

Spec == Init /\ [][Next]_vars

----------------------------------------------------------------------------
(* Properties *)

nTaps == paramEq.nTaps
ValidConfig == nTaps >= 1 /\ paramEq.SpS >= 1 /\ paramEq.numIter >= 1

\* C1: a call with nTaps >= 1, samplesPerSymbol >= 1 and numIter >= 1 returns
\* an output stream of exactly outputLength rows and a Tap Matrix of
\* nModes*nModes rows and nTaps columns, whether outputLength was derived or
\* supplied.
ShapeInvariant ==
    (pc = "done" /\ ValidConfig) =>
        /\ Len(yEq) = L[1]
        /\ Len(H) = nModes * nModes
        /\ \A r \in 1..Len(H) : Len(H[r]) = nTaps

ModeCountOf(a) == Len(Orient(a)[1])

\* C2: when the Reference Stream is supplied and its mode count differs from
\* the Sample Stream's, the call fails with ShapeMismatch, runs no adaptation
\* step and never returns a result (stated for otherwise valid options).
ShapeMismatchRejected ==
    (/\ Len(dxArg.rows) # 0
     /\ ModeCountOf(dxArg) # ModeCountOf(xArg)
     /\ ValidConfig /\ paramEq.mu.re > 0) =>
        /\ pc \notin {"filter", "update", "store", "return", "done"}
        /\ pc = "raised" => exc = "ShapeMismatch"

\* C3: a non-positive nTaps, mu or samplesPerSymbol is rejected at entry:
\* the call raises before zero-padding, tap initialization or any pass, and
\* returns no result.
InvalidConfigRejected ==
    (nTaps <= 0 \/ paramEq.mu.re <= 0 \/ paramEq.SpS <= 0) =>
        \/ pc \in {"orient", "pad"}
        \/ /\ pc = "raised"
           /\ exc \in {"InvalidConfig", "ValueError"}
           /\ Len(x) = Len(Orient(xArg))
           /\ passes = << >>

\* C4: with no initial Tap Matrix supplied, the Tap Matrix handed to the
\* first pass holds 1 at the center tap floor(nTaps/2) of every row (output
\* mode m, input mode m) and 0 at every other tap of every row.
IdentityStart ==
    (paramEq.H = << >> /\ Len(passes) >= 1) =>
        \A m \in 1..nModes : \A n \in 1..nModes : \A t \in 1..nTaps :
            passes[1].taps0[m + (n - 1) * nModes][t] =
                (IF m = n /\ t - 1 = nTaps \div 2 THEN One ELSE Zero)
IdentityStartWitness ==
    /\ paramEq.H = << >>
    /\ pc = "update" /\ indIter = 0 /\ ind = 0
    /\ nModes = 2 /\ nTaps = 3

\* C5: the driver runs exactly numIter passes over the same padded stream;
\* the first starts from the supplied Tap Matrix when there is one, each
\* later pass from the Tap Matrix the pass before ended with, and the Tap
\* Matrix returned is the one the last pass ended with.
PassChaining ==
    /\ Len(passes) <= paramEq.numIter
    /\ \A k \in 1..Len(passes) : passes[k].stream = x
    /\ (paramEq.H # << >> /\ Len(passes) >= 1) => passes[1].taps0 = paramEq.H
    /\ \A k \in 2..Len(passes) : passes[k].taps0 = passes[k - 1].taps1
    /\ pc = "done" =>
          /\ Len(passes) = paramEq.numIter
          /\ H = passes[Len(passes)].taps1
PassChainingWitness ==
    /\ pc = "done"
    /\ paramEq.numIter = 2
    /\ paramEq.H # << >>
    /\ passes[2].taps1 # passes[1].taps1
    /\ passes[1].taps1 # paramEq.H

HistoryDepth == Len(Hiter[1][1])
Snapshot(k) == [r \in 1..Len(Hiter) |-> [t \in 1..Len(Hiter[r]) |-> Hiter[r][t][k]]]

\* C6: the Tap History follows the storage flag.  With storeCoeff it holds,
\* at index i, the Tap Matrix right after the update of step i; without it,
\* a single snapshot that after the pass equals the final Tap Matrix.  Every
\* write to the Tap History lands inside the allocated array.
TapHistoryFollowsFlag ==
    /\ "Hiter" \notin ub
    /\ (pc \in {"filter", "return"} /\ ind >= 1) =>
          IF paramEq.storeCoeff
          THEN HistoryDepth = L[1] /\ Snapshot(ind) = H
          ELSE HistoryDepth = 1 /\ (pc = "return" => Snapshot(1) = H)

\* C7: at every output index i of every pass the input window is the nTaps
\* padded samples i*SpS .. i*SpS + nTaps - 1, all of them inside the padded
\* stream of length (input length + 2*floor(nTaps/2)), whether outputLength
\* was derived or supplied.
WindowInsideStream ==
    /\ "x" \notin ub
    /\ pc \in {"filter", "update", "store", "return", "done"} =>
          Len(x) = Len(Orient(xArg)) + 2 * (nTaps \div 2)
    /\ pc = "update" =>
          \A t \in 1..nTaps :
             /\ ind * paramEq.SpS + t <= Len(x)
             /\ win[t] = x[ind * paramEq.SpS + t]

\* C8: an NLMS step whose window has zero energy for some input mode has a
\* defined outcome: the Tap Matrix rows of that input mode keep their values
\* (or the step is reported); no undefined value is written into the Tap
\* Matrix.
ZeroEnergyStepDefined ==
    (pc = "store" /\ paramEq.alg = "nlms") =>
        \A n \in 1..nModes :
            Energy(win, n) = Zero =>
                \A m \in 1..nModes :
                    /\ H[m + (n - 1) * nModes] = prevH[m + (n - 1) * nModes]
                    /\ \A t \in 1..nTaps : ~IsNaN(H[m + (n - 1) * nModes][t])

\* the error term of output mode m at the current step, as the rule defines it
StepError(m) ==
    CASE paramEq.alg = "nlms" -> CSub(Broadcast(dRef, m), outEq[m])
      [] paramEq.alg = "cma" -> CSub(Rcma, CAbs2(outEq[m]))
      [] paramEq.alg = "ddlms" -> CSub(Decide(outEq[m], constSymb), outEq[m])
      [] paramEq.alg = "rde" ->
             LET r == DecideRadius(Rrde, outEq[m])
             IN  CSub(CMul(r, r), CAbs2(outEq[m]))

\* the conjugate of tap t of input mode n's window, energy-normalised in NLMS
StepInput(n, t) ==
    IF paramEq.alg = "nlms"
    THEN CConj(CDivReal(win[t][n], Energy(win, n)))
    ELSE CConj(win[t][n])

\* after the update of a step every row (m, n) is the old row plus
\* mu * Gain(m) * conj(window of n), and the squared error is |error|^2
RowsUpdatedBy(Gain(_)) ==
    pc = "store" =>
        /\ \A m \in 1..nModes : \A n \in 1..nModes : \A t \in 1..nTaps :
              H[m + (n - 1) * nModes][t] =
                 CAdd(prevH[m + (n - 1) * nModes][t],
                      CMul(CMul(paramEq.mu, Gain(m)), StepInput(n, t)))
        /\ \A m \in 1..nModes : errSq[m][ind + 1] = CAbs2(StepError(m))

\* C9 as claimed: all four rules add mu * error(m) * conj(window of n) to
\* row (m, n), with no other factor, and return |error(m)|^2.
UpdateFormAsClaimed == RowsUpdatedBy(StepError)

\* the factor of the gradient step: CMA and RDE multiply the error by the output
StepGain(m) ==
    IF paramEq.alg \in {"cma", "rde"} THEN CMul(StepError(m), outEq[m])
    ELSE StepError(m)

\* C9 as amended: nlmsUp and ddlmsUp add mu * error(m) * conj(window of n);
\* cmaUp and rdeUp add mu * error(m) * output(m) * conj(window of n); all
\* four return |error(m)|^2.
UpdateForm == RowsUpdatedBy(StepGain)
UpdateFormWitness ==
    /\ pc = "store"
    /\ paramEq.alg = "cma"
    /\ nModes = 2
    /\ H # prevH
    /\ \E m \in 1..nModes : StepGain(m) # StepError(m) /\ IsFin(StepGain(m))

\* C10: the output recorded at index i for output mode m is the sum over the
\* input modes n of the dot product of n's window with row m + n*nModes of
\* the Tap Matrix (n from 0), the row that the update of the pair (m, n)
\* writes and that the identity start sets for m = n.
FilterOutputForm ==
    /\ pc = "update" =>
          /\ \A m \in 1..nModes :
                outEq[m] = SumSeq([n \in 1..nModes |->
                                     Dot(Column(win, n), H[m + (n - 1) * nModes], nTaps)],
                                  nModes)
          /\ ind < Len(yEq) => yEq[ind + 1] = outEq
    /\ RowsUpdatedBy(StepGain)
    /\ (paramEq.H = << >> /\ Len(passes) >= 1) =>
          \A m \in 1..nModes :
              passes[1].taps0[m + (m - 1) * nModes][(nTaps \div 2) + 1] = One
FilterOutputFormWitness ==
    /\ pc = "update"
    /\ nModes = 2
    /\ ind < Len(yEq)
    /\ H[2] # H[3]
    /\ \E t \in 1..nTaps : H[3][t] # Zero /\ IsFin(H[3][t]) /\ win[t][2] # Zero
    /\ IsFin(outEq[1]) /\ outEq[1] # outEq[2]

\* the driver's streams are the caller's of the time of the call, in
\* columns, the Sample Stream between floor(nTaps/2) rows of zeros at either
\* end
InternalStreamsIntact ==
    pc \in {"length", "taps", "loop", "filter", "update", "store", "return", "done"} =>
        /\ x = Zeros(nTaps \div 2, nModes) \o Orient(atCall.x)
                  \o Zeros(nTaps \div 2, nModes)
        /\ dx = (IF Len(atCall.dx.rows) = 0 THEN Orient(atCall.x)
                 ELSE Orient(atCall.dx))

\* C11: a call leaves the caller's Sample Stream and Reference Stream
\* unchanged; no step of any algorithm or pass writes to either of them or
\* to the oriented, zero-padded streams the driver works on.
StreamsUnchanged ==
    /\ xArg = atCall.x
    /\ dxArg = atCall.dx
    /\ InternalStreamsIntact
StreamsUnchangedWitness ==
    /\ pc = "done"
    /\ indIter = 2
    /\ Len(dxArg.rows) # 0
    /\ xArg.ndim = 2 /\ Len(xArg.rows[1]) > Len(xArg.rows)
    /\ Len(x) > Len(Orient(xArg))
    /\ \E k \in 1..Len(yEq) : IsFin(yEq[k][1]) /\ yEq[k] # x[k]
    /\ H # passes[1].taps0

Blind == paramEq.alg \in {"cma", "ddlms", "rde"}

\* a blind rule on the window w, the output out and the Tap Matrix h
BlindRule(w, out, h) ==
    CASE paramEq.alg = "cma" ->
             cmaUp(w, [m \in 1..nModes |-> Rcma], out, paramEq.mu, h, nModes)
      [] paramEq.alg = "ddlms" -> ddlmsUp(w, constSymb, out, paramEq.mu, h, nModes)
      [] paramEq.alg = "rde" -> rdeUp(w, Rrde, out, paramEq.mu, h, nModes)

\* the window of output index i (from 0) in the padded Sample Stream
WindowAt(i) == [t \in 1..nTaps |-> x[(t - 1) + i * paramEq.SpS + 1]]

RECURSIVE BlindPass(_)
\* Tap Matrix, output vectors and squared errors after the indices 0..k-1 of
\* the current pass, computed from the padded Sample Stream, the options and
\* the pass's first Tap Matrix
BlindPass(k) ==
    IF k = 0
    THEN [H |-> passes[Len(passes)].taps0, yEq |-> << >>, errSq |-> << >>]
    ELSE LET p == BlindPass(k - 1)
             w == WindowAt(k - 1)
             out == FilterOut(p.H, w, nModes)
             r == BlindRule(w, out, p.H)
         IN  [H |-> r.H, yEq |-> Append(p.yEq, out), errSq |-> Append(p.errSq, r.errSq)]

\* C12: with CMA, DDLMS or RDE no step reads the Reference Stream, and output
\* stream, Tap Matrix and Error Trace are at every step what the Sample
\* Stream, the options and the initial Tap Matrix alone determine, whatever
\* the Reference Stream (matching, of another mode count, or absent); an
\* NLMS step reads the reference vector of its own output index.
ReferenceOnlyInNlms ==
    /\ Blind =>
          /\ "dx" \notin ub
          /\ dRef = << >>
          /\ (pc = "raised" /\ passes # << >>) => exc = "IndexError"
          /\ (pc = "return" /\ "x" \notin ub) =>
                LET p == BlindPass(ind)
                IN  /\ H = p.H
                    /\ \A k \in 1..ind :
                          /\ k <= Len(yEq) => yEq[k] = p.yEq[k]
                          /\ \A m \in 1..nModes : errSq[m][k] = p.errSq[k][m]
    /\ (paramEq.alg = "nlms" /\ pc = "store") =>
          /\ ind < Len(dx) => dRef = dx[ind + 1]
          /\ H = nlmsUp(win, dRef, outEq, paramEq.mu, prevH, nModes).H
ReferenceOnlyInNlmsWitness ==
    /\ paramEq.alg = "ddlms"
    /\ pc = "return" /\ ind >= 2 /\ "x" \notin ub
    /\ Len(dxArg.rows) # 0
    /\ ModeCountOf(dxArg) # ModeCountOf(xArg)
    /\ H # passes[Len(passes)].taps0
    /\ \E k \in 1..2 : dx[k] # << Decide(yEq[k][1], constSymb) >>

\* the rule of the call on the window w, the reference vector d, the output
\* out and the Tap Matrix h
StepRule(w, d, out, h) ==
    IF Blind THEN BlindRule(w, out, h)
    ELSE nlmsUp(w, d, out, paramEq.mu, h, nModes)

\* C13: within a pass the steps come strictly in order.  The output of index
\* i is computed from the Tap Matrix left by the update of index i-1 (the
\* pass's first Tap Matrix for i = 0); the update of index i works on that
\* Tap Matrix, that output and the same window; and a pass that runs to its
\* end has written one output, applied the rule once and written one
\* Error Trace column for every index 0..outputLength-1, none of them
\* overwritten afterwards.  (An entry of steps never changes once appended:
\* what it was computed from is compared while it is the newest.)
StepsInOrder ==
    /\ pc = "filter" => Len(steps) = 2 * ind
    /\ pc = "update" => Len(steps) = 2 * ind + 1
    /\ pc = "store" => Len(steps) = 2 * ind + 2
    /\ pc = "return" => Len(steps) = 2 * ind /\ ind = L[1]
    /\ \A j \in 1..Len(steps) :
          /\ steps[j].ind = (j - 1) \div 2
          /\ steps[j].op = (IF j % 2 = 1 THEN "out" ELSE "upd")
    /\ steps # << >> =>
          LET j == Len(steps)
              new == steps[j]
          IN  IF new.op = "out"
              THEN /\ new.taps = (IF j = 1 THEN passes[Len(passes)].taps0
                                  ELSE steps[j - 1].after)
                   /\ new.outEq = FilterOut(new.taps, new.win, nModes)
              ELSE /\ new.taps = steps[j - 1].taps
                   /\ new.win = steps[j - 1].win
                   /\ new.outEq = steps[j - 1].outEq
                   /\ new.after = StepRule(new.win, new.ref, new.outEq, new.taps).H
    /\ pc \in {"filter", "update", "return"} =>
          H = (IF ind = 0 THEN passes[Len(passes)].taps0 ELSE steps[2 * ind].after)
    /\ pc = "return" =>
          \A i \in 0..(L[1] - 1) :
              /\ i < Len(yEq) => yEq[i + 1] = steps[2 * i + 1].outEq
              /\ \A m \in 1..nModes : errSq[m][i + 1] = steps[2 * i + 2].errSq[m]
StepsInOrderWitness ==
    /\ pc = "return"
    /\ indIter = 1
    /\ L[1] >= 2
    /\ nModes = 2
    /\ steps[2].after # steps[2].taps
    /\ steps[4].after # steps[4].taps
    /\ steps[3].outEq # FilterOut(steps[1].taps, steps[3].win, nModes)

\* C14: a Tap Matrix the caller supplied as initial taps holds, after the
\* call has returned, the values it had before the call; the adapted
\* coefficients are in the returned Tap Matrix only.
SuppliedTapsKept ==
    (pc = "done" /\ paramEq.H # << >>) => HArg = paramEq.H

====
